---- MODULE Spec2Model ----
(***************************************************************************)
(* Model of src/src/main.rs: the text statistics micro-benchmark.          *)
(* main() runs analyze_text_slow and then analyze_text_fast on one text.   *)
(* Bytes are integers 0..127 (ASCII text), a word is a sequence of bytes.  *)
(* time_ms (wall-clock) is left out of the stats records.                  *)
(***************************************************************************)
EXTENDS Integers, Sequences, FiniteSets, TLC

VARIABLES text,                \* the input buffer handed to both analyzers
          pc,                  \* position in main / analyze_text_fast
          stats_slow,          \* TextStats returned by analyze_text_slow
          pos,                 \* cursor of the split_ascii_whitespace iterator (0-based)
          tokens,              \* history: raw tokens yielded by the iterator so far
          word_freq,           \* HashMap<String, usize>
          char_count,
          longest_words_heap,  \* BinaryHeap<Reverse<(usize, String)>>, as its backing Vec
          top_words_heap,      \* BinaryHeap<(usize, String)>, as its backing Vec
          top_words,
          longest_words,
          stats_fast,          \* TextStats returned by analyze_text_fast
          word_count,
          seed,                \* hash seed (RandomState) of word_freq in this run
          run,                 \* 1 = the call in main, 2 = a second call on the same text
          first                \* result and seed of run 1, kept for comparing runs

vars == <<text, pc, stats_slow, pos, tokens, word_freq, char_count,
          longest_words_heap, top_words_heap, top_words, longest_words,
          stats_fast, word_count, seed, run, first>>

-----------------------------------------------------------------------------
(* Bounds of the model                                                     *)

MaxLen == 3       \* byte-level inputs: every string over Alphabet up to this length
MaxTokens == 6    \* token-level inputs: this many tokens drawn from TokWords
NumVocab == 11    \* vocabulary inputs: this many distinct one-letter words
NumSeeds == 2     \* number of distinct hash seeds (iteration orders) tried

(* Program constants *)
TopK == 10        \* for _ in 0..10 / take(10)
LongestL == 5     \* longest_words_heap.len() < 5 / take(5)

NoStats == [word_count |-> 0, char_count |-> 0, top_words |-> <<>>, longest_words |-> <<>>]

\* 'a', 'A', 'b', ',', ' ', LF, VT, SOH
Alphabet == {97, 65, 98, 44, 32, 10, 11, 1}

\* "b", "a", "cc"
TokWords == {<<98>>, <<97>>, <<99, 99>>}

-----------------------------------------------------------------------------
(* Generic helpers                                                         *)

Min(a, b) == IF a <= b THEN a ELSE b

Range(s) == {s[i] : i \in 1..Len(s)}

SeqReverse(s) == [i \in 1..Len(s) |-> s[Len(s) + 1 - i]]

Take(s, n) == SubSeq(s, 1, Min(n, Len(s)))

RECURSIVE JoinSpace(_)
JoinSpace(ws) ==
    IF ws = <<>> THEN <<>>
    ELSE IF Len(ws) = 1 THEN ws[1]
    ELSE ws[1] \o <<32>> \o JoinSpace(Tail(ws))

-----------------------------------------------------------------------------
(* Orderings: String (byte-lexicographic) and (usize, String) tuples        *)

RECURSIVE StrLess(_, _)
StrLess(a, b) ==
    IF a = <<>> THEN b # <<>>
    ELSE IF b = <<>> THEN FALSE
    ELSE IF Head(a) # Head(b) THEN Head(a) < Head(b)
    ELSE StrLess(Tail(a), Tail(b))

\* mutant: only the first component is compared
PairLessFirstOnly(x, y) == x[1] < y[1]

\* Ord for (usize, String): first component, then the string
PairLess(x, y) == x[1] < y[1] \/ (x[1] = y[1] /\ StrLess(x[2], y[2]))

PairLe(x, y) == x = y \/ PairLess(x, y)

\* x <= y in the heap's element order; rev = TRUE is the Reverse<..> wrapper
Le(rev, x, y) == IF rev THEN PairLe(y, x) ELSE PairLe(x, y)

-----------------------------------------------------------------------------
(* std::collections::BinaryHeap: a max-heap stored in a Vec.  Positions are *)
(* 0-based as in the library; data[p + 1] is the element at position p.     *)

\* data with the element at position p replaced by x
SetAt(data, p, x) == SubSeq(data, 1, p) \o <<x>> \o SubSeq(data, p + 2, Len(data))

\* Hole at position p holding elt; move parents down while elt > parent
RECURSIVE SiftUpHole(_, _, _, _, _)
SiftUpHole(rev, data, elt, start, p) ==
    IF p > start
    THEN LET parent == (p - 1) \div 2 IN
         IF Le(rev, elt, data[parent + 1])
         THEN SetAt(data, p, elt)
         ELSE SiftUpHole(rev, SetAt(data, p, data[parent + 1]), elt, start, parent)
    ELSE SetAt(data, p, elt)

sift_up(rev, data, start, p) == SiftUpHole(rev, data, data[p + 1], start, p)

\* BinaryHeap::push
HeapPush(rev, data, item) == sift_up(rev, Append(data, item), 0, Len(data))

\* Move the hole to the bottom following the greater child; returns <<data, pos>>
RECURSIVE SiftDownToBottomHole(_, _, _, _)
SiftDownToBottomHole(rev, data, elt, p) ==
    LET end == Len(data)
        child == 2 * p + 1
    IN IF end >= 2 /\ child <= end - 2
       THEN LET c == IF Le(rev, data[child + 1], data[child + 2]) THEN child + 1 ELSE child
            IN SiftDownToBottomHole(rev, SetAt(data, p, data[c + 1]), elt, c)
       ELSE IF child = end - 1
            THEN <<SetAt(SetAt(data, p, data[child + 1]), child, elt), child>>
            ELSE <<SetAt(data, p, elt), p>>

sift_down_to_bottom(rev, data, p) ==
    LET r == SiftDownToBottomHole(rev, data, data[p + 1], p)
    IN sift_up(rev, r[1], p, r[2])

\* BinaryHeap::peek: the greatest element (callers check non-emptiness)
HeapPeek(data) == data[1]

\* BinaryHeap::pop on a non-empty heap: <<popped item, remaining data>>
HeapPop(rev, data) ==
    LET item == data[Len(data)]
        rest == SubSeq(data, 1, Len(data) - 1)
    IN IF rest = <<>>
       THEN <<item, rest>>
       ELSE <<rest[1], sift_down_to_bottom(rev, SetAt(rest, 0, item), 0)>>

\* sift_down_range(pos, end) with end = len, used by rebuild
RECURSIVE SiftDownHole(_, _, _, _)
SiftDownHole(rev, data, elt, p) ==
    LET end == Len(data)
        child == 2 * p + 1
    IN IF end >= 2 /\ child <= end - 2
       THEN LET c == IF Le(rev, data[child + 1], data[child + 2]) THEN child + 1 ELSE child
            IN IF Le(rev, data[c + 1], elt)
               THEN SetAt(data, p, elt)
               ELSE SiftDownHole(rev, SetAt(data, p, data[c + 1]), elt, c)
       ELSE IF child = end - 1 /\ ~Le(rev, data[child + 1], elt)
            THEN SetAt(SetAt(data, p, data[child + 1]), child, elt)
            ELSE SetAt(data, p, elt)

sift_down(rev, data, p) == SiftDownHole(rev, data, data[p + 1], p)

RECURSIVE RebuildFrom(_, _, _)
RebuildFrom(rev, data, n) ==
    IF n > 0 THEN RebuildFrom(rev, sift_down(rev, data, n - 1), n - 1) ELSE data

\* mutant: the Vec is taken for a heap as it is
HeapFromVecNoRebuild(rev, vec) == vec

\* BinaryHeap::from(Vec), which is what collect() into a BinaryHeap does
HeapFromVec(rev, vec) == RebuildFrom(rev, vec, Len(vec) \div 2)

\* Pop up to n times (for _ in 0..n { if let Some(x) = heap.pop() {..} }):
\* <<popped items in order, remaining data>>
RECURSIVE PopN(_, _, _)
PopN(rev, data, n) ==
    IF n = 0 \/ data = <<>>
    THEN <<<<>>, data>>
    ELSE LET r == HeapPop(rev, data)
             more == PopN(rev, r[2], n - 1)
         IN <<<<r[1]>> \o more[1], more[2]>>

-----------------------------------------------------------------------------
(* Sorting.  sort_by is a stable sort; sort_unstable_by on a slice of at     *)
(* most 20 elements is an insertion sort.  Both are modelled by insertion    *)
(* sort with the comparator |a, b| key(b).cmp(&key(a)) (descending by key).  *)

Key(kind, x) ==
    CASE kind = "first" -> x[1]
      [] kind = "second" -> x[2]
      [] kind = "len" -> Len(x)

\* insert x into the sorted prefix: shift left past elements with a smaller key
RECURSIVE InsertTail(_, _, _)
InsertTail(kind, sorted, x) ==
    IF sorted # <<>> /\ Key(kind, sorted[Len(sorted)]) < Key(kind, x)
    THEN Append(InsertTail(kind, SubSeq(sorted, 1, Len(sorted) - 1), x), sorted[Len(sorted)])
    ELSE Append(sorted, x)

RECURSIVE SortDescFrom(_, _, _)
SortDescFrom(kind, sorted, todo) ==
    IF todo = <<>> THEN sorted
    ELSE SortDescFrom(kind, InsertTail(kind, sorted, Head(todo)), Tail(todo))

SortDesc(kind, s) == SortDescFrom(kind, <<>>, s)

-----------------------------------------------------------------------------
(* HashMap iteration.  The order depends on the map's random hash seed and   *)
(* is modelled as a permutation of the keys picked by the seed: the keys in  *)
(* byte order, rotated by seed \div 2 and reversed when the seed is odd.     *)

RECURSIVE SortedKeys(_)
SortedKeys(S) ==
    IF S = {} THEN <<>>
    ELSE LET m == CHOOSE x \in S : \A y \in S \ {x} : StrLess(x, y)
         IN <<m>> \o SortedKeys(S \ {m})

Rotate(s, k) ==
    IF s = <<>> THEN s
    ELSE LET n == Len(s) IN [i \in 1..n |-> s[((i - 1 + k) % n) + 1]]

IterOrder(map, sd) ==
    LET r == Rotate(SortedKeys(DOMAIN map), sd \div 2)
    IN IF sd % 2 = 1 THEN SeqReverse(r) ELSE r

\* mutant: or_insert(1), a new word starts at 2
EntryIncrementFromOne(map, key) ==
    [w \in (DOMAIN map) \cup {key} |->
        IF w = key THEN (IF key \in DOMAIN map THEN map[key] + 1 ELSE 2) ELSE map[w]]

\* *map.entry(key).or_insert(0) += 1
EntryIncrement(map, key) ==
    [w \in (DOMAIN map) \cup {key} |->
        IF w = key THEN (IF key \in DOMAIN map THEN map[key] + 1 ELSE 1) ELSE map[w]]

EmptyMap == [w \in {} |-> 0]

-----------------------------------------------------------------------------
(* Byte and char classification                                            *)

\* mutant: vertical tab taken for whitespace as well
WhitespaceWithVT == {32, 9, 10, 11, 12, 13}

\* u8::is_ascii_whitespace: SPACE, TAB, LF, FF, CR
AsciiWhitespace == {32, 9, 10, 12, 13}

\* char::is_whitespace restricted to ASCII: U+0009..U+000D and U+0020
CharWhitespace == {9, 10, 11, 12, 13, 32}

\* u8::is_ascii_alphabetic
is_ascii_alphabetic(ch) == (ch >= 65 /\ ch <= 90) \/ (ch >= 97 /\ ch <= 122)

\* char::is_alphabetic on an ASCII char
is_alphabetic(c) == (c >= 65 /\ c <= 90) \/ (c >= 97 /\ c <= 122)

\* ch | 0x20 on a byte: set bit 5
BitOr32(ch) == IF (ch \div 32) % 2 = 1 THEN ch ELSE ch + 32

\* char::to_lowercase on an ASCII char
to_lowercase(c) == IF c >= 65 /\ c <= 90 THEN c + 32 ELSE c

-----------------------------------------------------------------------------
(* Splitting.  p is a 0-based offset: the next unread byte is t[p + 1].     *)

\* first offset >= p that is the end of t or holds a non-separator
RECURSIVE SkipSeps(_, _, _)
SkipSeps(t, p, seps) ==
    IF p < Len(t) /\ t[p + 1] \in seps THEN SkipSeps(t, p + 1, seps) ELSE p

\* first offset >= p that is the end of t or holds a separator
RECURSIVE TokenEnd(_, _, _)
TokenEnd(t, p, seps) ==
    IF p < Len(t) /\ t[p + 1] \notin seps THEN TokenEnd(t, p + 1, seps) ELSE p

\* the non-empty pieces of t between separators, from offset p on
RECURSIVE SplitFrom(_, _, _)
SplitFrom(t, p, seps) ==
    LET s == SkipSeps(t, p, seps) IN
    IF s >= Len(t) THEN <<>>
    ELSE LET e == TokenEnd(t, s, seps)
         IN <<SubSeq(t, s + 1, e)>> \o SplitFrom(t, e, seps)

\* str::split_whitespace
split_whitespace(line) == SplitFrom(line, 0, CharWhitespace)

\* str::lines: split at LF, drop the LF and a CR before it; no final empty line
RECURSIVE lines(_)
lines(t) ==
    IF t = <<>> THEN <<>>
    ELSE LET e == TokenEnd(t, 0, {10}) IN
         IF e >= Len(t) THEN <<t>>
         ELSE LET raw == SubSeq(t, 1, e)
                  line == IF raw # <<>> /\ raw[Len(raw)] = 13
                          THEN SubSeq(raw, 1, Len(raw) - 1) ELSE raw
              IN <<line>> \o lines(SubSeq(t, e + 2, Len(t)))

-----------------------------------------------------------------------------
(* analyze_text_slow                                                       *)

\* word.to_lowercase().chars().filter(|c| c.is_alphabetic()).collect()
RECURSIVE SlowClean(_)
SlowClean(word) ==
    IF word = <<>> THEN <<>>
    ELSE LET c == to_lowercase(Head(word)) IN
         IF is_alphabetic(c) THEN <<c>> \o SlowClean(Tail(word)) ELSE SlowClean(Tail(word))

\* the non-empty clean words of a line, in order
RECURSIVE CleanAll(_)
CleanAll(ws) ==
    IF ws = <<>> THEN <<>>
    ELSE LET c == SlowClean(Head(ws)) IN
         IF c # <<>> THEN <<c>> \o CleanAll(Tail(ws)) ELSE CleanAll(Tail(ws))

\* the words pushed by the two nested loops over lines and words
RECURSIVE SlowAllWords(_)
SlowAllWords(ls) ==
    IF ls = <<>> THEN <<>>
    ELSE CleanAll(split_whitespace(Head(ls))) \o SlowAllWords(Tail(ls))

RECURSIVE CountAll(_, _)
CountAll(map, ws) ==
    IF ws = <<>> THEN map ELSE CountAll(EntryIncrement(map, Head(ws)), Tail(ws))

RECURSIVE SlowCharCount(_)
SlowCharCount(ls) ==
    IF ls = <<>> THEN 0
    ELSE Len(SelectSeq(Head(ls), is_alphabetic)) + SlowCharCount(Tail(ls))

SlowStats(t, sd) ==
    LET all_words == SlowAllWords(lines(t))
        freq == CountAll(EmptyMap, all_words)
        order == IterOrder(freq, sd)
        word_vec == [i \in 1..Len(order) |-> <<order[i], freq[order[i]]>>]
    IN [word_count |-> Cardinality(DOMAIN freq),
        char_count |-> SlowCharCount(lines(t)),
        top_words |-> Take(SortDesc("second", word_vec), TopK),
        longest_words |-> Take(SortDesc("len", all_words), LongestL)]

-----------------------------------------------------------------------------
(* analyze_text_fast                                                       *)

\* mutant: the bytes are pushed without folding the case
RECURSIVE CleanWordKeepCase(_)
CleanWordKeepCase(word) ==
    IF word = <<>> THEN <<>>
    ELSE IF is_ascii_alphabetic(Head(word))
         THEN <<Head(word)>> \o CleanWordKeepCase(Tail(word))
         ELSE CleanWordKeepCase(Tail(word))

\* the inner loop over word.as_bytes(): the pushed bytes of clean_word
RECURSIVE CleanWord(_)
CleanWord(word) ==
    IF word = <<>> THEN <<>>
    ELSE IF is_ascii_alphabetic(Head(word))
         THEN <<BitOr32(Head(word))>> \o CleanWord(Tail(word))
         ELSE CleanWord(Tail(word))

\* mutant: every byte of the token is counted
CharDeltaAllBytes(word) == Len(word)

\* the inner loop over word.as_bytes(): the number of char_count += 1 executed
CharDelta(word) == Len(CleanWord(word))

\* mutant: len >= min_len, a word as long as the minimum evicts
OfferEvictOnTie(heap, clean_word) ==
    LET len == Len(clean_word) IN
    IF Len(heap) < LongestL
    THEN HeapPush(TRUE, heap, <<len, clean_word>>)
    ELSE LET min_len == HeapPeek(heap)[1] IN
         IF len >= min_len
         THEN HeapPush(TRUE, HeapPop(TRUE, heap)[2], <<len, clean_word>>)
         ELSE heap

\* the update of longest_words_heap for one non-empty clean word
Offer(heap, clean_word) ==
    LET len == Len(clean_word) IN
    IF Len(heap) < LongestL
    THEN HeapPush(TRUE, heap, <<len, clean_word>>)
    ELSE LET min_len == HeapPeek(heap)[1] IN
         IF len > min_len
         THEN HeapPush(TRUE, HeapPop(TRUE, heap)[2], <<len, clean_word>>)
         ELSE heap

\* word_freq.into_iter().map(|(w, c)| (c, w)).collect::<BinaryHeap<_>>()
TopWordsHeap(map, sd) ==
    LET order == IterOrder(map, sd)
    IN HeapFromVec(FALSE, [i \in 1..Len(order) |-> <<map[order[i]], order[i]>>])

\* the loop popping up to 10 entries: <<top_words, remaining heap>>
PopTopWords(heap) ==
    LET r == PopN(FALSE, heap, TopK)
    IN <<[i \in 1..Len(r[1]) |-> <<r[1][i][2], r[1][i][1]>>], r[2]>>

\* mutant: the heap's Vec is returned without sorting it
LongestWordsUnsorted(heap) == [i \in 1..Len(heap) |-> heap[i][2]]

\* into_iter (the backing Vec), sort_unstable_by length descending, keep the words
LongestWords(heap) ==
    LET longest_vec == SortDesc("first", heap)
    IN [i \in 1..Len(longest_vec) |-> longest_vec[i][2]]

-----------------------------------------------------------------------------
(* Inputs                                                                  *)

ByteTexts == UNION {[1..n -> Alphabet] : n \in 0..MaxLen}

TokenTexts == {JoinSpace(ws) : ws \in [1..MaxTokens -> TokWords]}

\* NumVocab distinct one-letter words "a", "b", ..
VocabWord(i) == <<96 + i>>

\* every word once, ascending or descending, then up to two repeated words
VocabTexts ==
    LET asc == [i \in 1..NumVocab |-> VocabWord(i)]
        extra == UNION {[1..n -> 1..NumVocab] : n \in 0..2}
    IN {JoinSpace(base \o [i \in 1..Len(x) |-> VocabWord(x[i])]) :
            base \in {asc, SeqReverse(asc)}, x \in extra}

Inputs == ByteTexts \cup TokenTexts \cup VocabTexts

-----------------------------------------------------------------------------
(* The state machine: main calls analyze_text_slow, then analyze_text_fast *)

Init ==
    /\ text \in Inputs
    /\ pc = "slow"
    /\ stats_slow = NoStats
    /\ pos = 0
    /\ tokens = <<>>
    /\ word_freq = EmptyMap
    /\ char_count = 0
    /\ longest_words_heap = <<>>
    /\ top_words_heap = <<>>
    /\ top_words = <<>>
    /\ longest_words = <<>>
    /\ stats_fast = NoStats
    /\ word_count = 0
    /\ seed = 0
    /\ run = 1
    /\ first = [stats |-> NoStats, seed |-> 0]

\* main: let stats_slow = analyze_text_slow(&text)
AnalyzeSlow ==
    /\ pc = "slow"
    /\ \E sd \in 0..(NumSeeds - 1) : stats_slow' = SlowStats(text, sd)
    /\ pc' = "scan"
    /\ UNCHANGED <<text, pos, tokens, word_freq, char_count, longest_words_heap,
                   top_words_heap, top_words, longest_words, stats_fast, word_count,
                   seed, run, first>>

\* one iteration of: for word in text.split_ascii_whitespace() { .. }
ScanWord ==
    /\ pc = "scan"
    /\ LET s == SkipSeps(text, pos, AsciiWhitespace) IN
       /\ s < Len(text)
       /\ LET e == TokenEnd(text, s, AsciiWhitespace)
              word == SubSeq(text, s + 1, e)
              clean_word == CleanWord(word)
          IN /\ pos' = e
             /\ tokens' = Append(tokens, word)
             /\ char_count' = char_count + CharDelta(word)
             /\ IF clean_word # <<>>
                THEN /\ longest_words_heap' = Offer(longest_words_heap, clean_word)
                     /\ word_freq' = EntryIncrement(word_freq, clean_word)
                ELSE UNCHANGED <<longest_words_heap, word_freq>>
    /\ UNCHANGED <<text, pc, stats_slow, top_words_heap, top_words, longest_words,
                   stats_fast, word_count, seed, run, first>>

\* the iterator is exhausted: the loop ends
ScanEnd ==
    /\ pc = "scan"
    /\ SkipSeps(text, pos, AsciiWhitespace) >= Len(text)
    /\ pos' = Len(text)
    /\ pc' = "top"
    /\ UNCHANGED <<text, stats_slow, tokens, word_freq, char_count, longest_words_heap,
                   top_words_heap, top_words, longest_words, stats_fast, word_count,
                   seed, run, first>>

\* word_count, top_words_heap and the loop filling top_words
CollectTopWords ==
    /\ pc = "top"
    /\ word_count' = Cardinality(DOMAIN word_freq)
    /\ \E sd \in 0..(NumSeeds - 1) :
          /\ seed' = sd
          /\ LET r == PopTopWords(TopWordsHeap(word_freq, sd))
             IN /\ top_words' = r[1]
                /\ top_words_heap' = r[2]
    /\ pc' = "longest"
    /\ UNCHANGED <<text, stats_slow, pos, tokens, word_freq, char_count,
                   longest_words_heap, longest_words, stats_fast, run, first>>

\* longest_vec, longest_words and the returned TextStats
CollectLongest ==
    /\ pc = "longest"
    /\ longest_words' = LongestWords(longest_words_heap)
    /\ stats_fast' = [word_count |-> word_count, char_count |-> char_count,
                      top_words |-> top_words,
                      longest_words |-> LongestWords(longest_words_heap)]
    /\ pc' = "done"
    /\ UNCHANGED <<text, stats_slow, pos, tokens, word_freq, char_count,
                   longest_words_heap, top_words_heap, top_words, word_count,
                   seed, run, first>>

\* a second call analyze_text_fast(&text) on the same text, with fresh locals
AnalyzeFastAgain ==
    /\ pc = "done"
    /\ run = 1
    /\ first' = [stats |-> stats_fast, seed |-> seed]
    /\ run' = 2
    /\ pc' = "scan"
    /\ pos' = 0
    /\ tokens' = <<>>
    /\ word_freq' = EmptyMap
    /\ char_count' = 0
    /\ longest_words_heap' = <<>>
    /\ top_words_heap' = <<>>
    /\ top_words' = <<>>
    /\ longest_words' = <<>>
    /\ stats_fast' = NoStats
    /\ word_count' = 0
    /\ seed' = 0
    /\ UNCHANGED <<text, stats_slow>>

Next ==
    \/ AnalyzeSlow
    \/ ScanWord
    \/ ScanEnd
    \/ CollectTopWords
    \/ CollectLongest
    \/ AnalyzeFastAgain

Spec == Init /\ [][Next]_vars

-----------------------------------------------------------------------------
(* Vocabulary used to state the properties                                 *)

Done == pc = "done"

ScanFinished == pc \in {"top", "longest", "done"}

IsAlphaByte(b) == b \in (65..90) \cup (97..122)

LowerByte(b) == IF b \in 65..90 THEN b + 32 ELSE b

\* the normalized word of a raw token: its alphabetic bytes, lowercased
Normalized(tok) ==
    LET alpha == SelectSeq(tok, IsAlphaByte)
    IN [k \in 1..Len(alpha) |-> LowerByte(alpha[k])]

NonEmptyWord(w) == w # <<>>

\* the non-empty normalized words of a sequence of raw tokens, in order
NormWords(toks) ==
    SelectSeq([i \in 1..Len(toks) |-> Normalized(toks[i])], NonEmptyWord)

\* the words forwarded so far to the vocabulary and the longest-set
Offered == NormWords(tokens)

\* insertion index of w: the position of its first appearance
FirstSeen(w) == CHOOSE i \in 1..Len(Offered) :
                    Offered[i] = w /\ \A j \in 1..(i - 1) : Offered[j] # w

CountIn(s, x) == Cardinality({i \in 1..Len(s) : s[i] = x})

SameBag(s, t) ==
    /\ Len(s) = Len(t)
    /\ \A x \in Range(s) \cup Range(t) : CountIn(s, x) = CountIn(t, x)

\* the maximal runs <<i, j>> of bytes of t that are not in seps
Runs(t, seps) ==
    LET n == Len(t)
        starts == {i \in 1..n : t[i] \notin seps /\ (i = 1 \/ t[i - 1] \in seps)}
        ends == {j \in 1..n : t[j] \notin seps /\ (j = n \/ t[j + 1] \in seps)}
    IN {<<i, CHOOSE j \in ends : j >= i /\ \A k \in ends : k >= i => j <= k>> : i \in starts}

\* toks is exactly the sequence of maximal runs of t, left to right
TokensAreRuns(toks, t, seps) ==
    LET R == Runs(t, seps) IN
    /\ Len(toks) = Cardinality(R)
    /\ \A r \in R : toks[Cardinality({q \in R : q[1] <= r[1]})] = SubSeq(t, r[1], r[2])

\* the distinct non-empty normalized words of the maximal runs of t
RunVocabulary(t, seps) ==
    {Normalized(SubSeq(t, r[1], r[2])) : r \in Runs(t, seps)} \ {<<>>}

\* bytes with value <= 0x20
UpTo0x20 == 0..32

\* SPACE, TAB, LF, FF, CR
FiveAsciiSpaces == {9, 10, 12, 13, 32}

-----------------------------------------------------------------------------
(* C1: the longest_words list returned by analyze_text_fast holds each      *)
(* normalized word at most once and has min(5, unique_word_count) entries.  *)
C1_LongestDistinct ==
    Done =>
        LET lw == stats_fast.longest_words IN
        /\ \A i, j \in 1..Len(lw) : i # j => lw[i] # lw[j]
        /\ Len(lw) = Min(LongestL, stats_fast.word_count)

-----------------------------------------------------------------------------
(* C5 as stated: word_count is the number of distinct non-empty normalized  *)
(* words of the maximal runs of bytes > 0x20.                               *)
C5_Original ==
    Done => stats_fast.word_count = Cardinality(RunVocabulary(text, UpTo0x20))

(* C5 amended: word_count is the number of distinct non-empty normalized    *)
(* words of the maximal runs of bytes other than the five ASCII whitespace  *)
(* bytes; punctuation-only tokens add nothing; blank input gives 0.         *)
C5_WordCount ==
    Done =>
        /\ stats_fast.word_count = Cardinality(RunVocabulary(text, FiveAsciiSpaces))
        /\ DOMAIN word_freq = RunVocabulary(text, FiveAsciiSpaces)
        /\ (\A i \in 1..Len(text) : text[i] \in FiveAsciiSpaces) => stats_fast.word_count = 0

\* a finished run on a text where a control byte glues two words into one
C5_Witness ==
    /\ Done
    /\ stats_fast.word_count >= 1
    /\ Cardinality(RunVocabulary(text, UpTo0x20)) # stats_fast.word_count

-----------------------------------------------------------------------------
\* number of alphabetic bytes of t[i..j]
AlphaBytes(t, i, j) == Cardinality({k \in i..j : IsAlphaByte(t[k])})

RECURSIVE SumAlpha(_, _)
SumAlpha(t, R) ==
    IF R = {} THEN 0
    ELSE LET r == CHOOSE x \in R : TRUE
         IN AlphaBytes(t, r[1], r[2]) + SumAlpha(t, R \ {r})

(* C6: char_count is the number of ASCII alphabetic bytes in the raw tokens *)
(* (repeated words included; separators and other bytes never count), and   *)
(* the counter never decreases during the scan.                             *)
C6_CharCount ==
    /\ [](Done => /\ stats_fast.char_count = SumAlpha(text, Runs(text, UpTo0x20))
                  /\ stats_fast.char_count = AlphaBytes(text, 1, Len(text)))
    /\ [](pc = "scan" => char_count = AlphaBytes(text, 1, pos))
    /\ [][pc = "scan" => char_count' >= char_count]_vars

\* a finished run with a repeated word: more letters counted than the vocabulary holds
C6_Witness ==
    /\ Done
    /\ stats_fast.word_count = 1
    /\ Len(Offered) >= 2
    /\ stats_fast.char_count > Len(Offered[1])
    /\ \E i \in 1..Len(text) : ~IsAlphaByte(text[i])

-----------------------------------------------------------------------------
(* C7 as stated: the raw tokens are the maximal runs of bytes > 0x20, so no *)
(* token handed to normalization holds a byte <= 0x20.                      *)
C7_Original ==
    /\ \A k \in 1..Len(tokens) : \A i \in 1..Len(tokens[k]) : tokens[k][i] > 32
    /\ ScanFinished => TokensAreRuns(tokens, text, UpTo0x20)

(* C7 amended: the separators are exactly the five ASCII whitespace bytes   *)
(* 0x09, 0x0A, 0x0C, 0x0D, 0x20: no raw token holds one of them, and the    *)
(* tokens are the maximal runs of all other bytes (0x01 and 0x0B included). *)
C7_Separators ==
    /\ \A k \in 1..Len(tokens) :
          /\ tokens[k] # <<>>
          /\ \A i \in 1..Len(tokens[k]) : tokens[k][i] \notin FiveAsciiSpaces
    /\ ScanFinished => TokensAreRuns(tokens, text, FiveAsciiSpaces)

\* a token that keeps a control byte between two letters
C7_Witness ==
    /\ ScanFinished
    /\ \E k \in 1..Len(tokens) : \E i \in 2..(Len(tokens[k]) - 1) :
          /\ tokens[k][i] \in {1, 11}
          /\ IsAlphaByte(tokens[k][i - 1])
          /\ IsAlphaByte(tokens[k][i + 1])

-----------------------------------------------------------------------------
(* C10: on every ASCII input analyze_text_slow and analyze_text_fast return *)
(* the same word_count and the same char_count.                             *)
C10_SlowFastAgree ==
    Done =>
        /\ stats_slow.word_count = stats_fast.word_count
        /\ stats_slow.char_count = stats_fast.char_count

-----------------------------------------------------------------------------
\* top_words is ordered by count descending, ties by ascending insertion index
ByCountThenFirstSeen(tw) ==
    \A i, j \in 1..Len(tw) : i < j =>
        \/ tw[i][2] > tw[j][2]
        \/ tw[i][2] = tw[j][2] /\ FirstSeen(tw[i][1]) < FirstSeen(tw[j][1])

\* top_words is ordered by count descending, ties by descending byte order of the word
ByCountThenWordDesc(tw) ==
    \A i, j \in 1..Len(tw) : i < j =>
        \/ tw[i][2] > tw[j][2]
        \/ tw[i][2] = tw[j][2] /\ StrLess(tw[j][1], tw[i][1])

CountsNonIncreasing(tw) ==
    \A i, j \in 1..Len(tw) : i < j => tw[i][2] >= tw[j][2]

(* C2 as stated: top_words is sorted by count descending and, among equal   *)
(* counts, by ascending insertion index (order of first appearance).        *)
C2_Original ==
    Done => ByCountThenFirstSeen(stats_fast.top_words)

(* C2 amended: the top_words of analyze_text_fast is sorted by count        *)
(* descending and, among equal counts, by descending byte-wise order of the *)
(* word; the top_words of analyze_text_slow is sorted by count descending.  *)
C2_TopWordsOrder ==
    /\ Done => ByCountThenWordDesc(stats_fast.top_words)
    /\ pc # "slow" => CountsNonIncreasing(stats_slow.top_words)

\* a finished run whose top_words holds a tie in count and two different counts,
\* the tied words listed against their order of first appearance
C2_Witness ==
    /\ Done
    /\ LET tw == stats_fast.top_words IN
       /\ \E i, j \in 1..Len(tw) : tw[i][2] > tw[j][2]
       /\ \E i, j \in 1..Len(tw) :
             i < j /\ tw[i][2] = tw[j][2] /\ FirstSeen(tw[i][1]) > FirstSeen(tw[j][1])

-----------------------------------------------------------------------------
(* C3: top_words has min(10, unique_word_count) entries, each a distinct    *)
(* vocabulary word with its true occurrence count; no word left out has a   *)
(* count strictly greater than an included one; a vocabulary of at most 10  *)
(* words is returned whole.                                                 *)
C3_TopWordsSelection ==
    Done =>
        LET tw == stats_fast.top_words
            off == Offered
            vocab == Range(off)
            included == {tw[i][1] : i \in 1..Len(tw)}
        IN /\ Len(tw) = Min(TopK, Cardinality(vocab))
           /\ stats_fast.word_count = Cardinality(vocab)
           /\ \A i \in 1..Len(tw) : tw[i][1] \in vocab /\ tw[i][2] = CountIn(off, tw[i][1])
           /\ \A i, j \in 1..Len(tw) : i # j => tw[i][1] # tw[j][1]
           /\ \A w \in vocab \ included : \A i \in 1..Len(tw) : CountIn(off, w) <= tw[i][2]
           /\ Cardinality(vocab) <= TopK => included = vocab

\* a finished run with more than 10 words, a repeated one among the ten listed
C3_Witness ==
    /\ Done
    /\ stats_fast.word_count > TopK
    /\ Len(stats_fast.top_words) = TopK
    /\ \E i \in 1..TopK : stats_fast.top_words[i][2] >= 2

-----------------------------------------------------------------------------
LengthsNonIncreasing(lw) ==
    \A i, j \in 1..Len(lw) : i < j => Len(lw[i]) >= Len(lw[j])

\* the greatest length among the words of the non-empty sequence off
MaxLenOf(off) == CHOOSE m \in {Len(off[i]) : i \in 1..Len(off)} :
                     \A i \in 1..Len(off) : Len(off[i]) <= m

\* the occurrences of words of maximum length in off, in input order
MaxLenOccurrencesOf(off) ==
    LET m == MaxLenOf(off)
        IsMax(w) == Len(w) = m
    IN SelectSeq(off, IsMax)

MaxLenOccurrences == MaxLenOccurrencesOf(Offered)

(* C4 as stated: longest_words is ordered by length descending, entries of  *)
(* equal length in ascending insertion index.                               *)
C4_Original ==
    Done =>
        LET lw == stats_fast.longest_words IN
        \A i, j \in 1..Len(lw) : i < j =>
            \/ Len(lw[i]) > Len(lw[j])
            \/ Len(lw[i]) = Len(lw[j]) /\ FirstSeen(lw[i]) <= FirstSeen(lw[j])

(* C4 amended: longest_words is ordered by length descending (entries of    *)
(* equal length come in the order the heap's layout leaves, not by          *)
(* insertion index); when more than 5 occurrences of words share the        *)
(* maximum length, the first five of them are the ones reported.            *)
C4_LongestOrder ==
    Done =>
        LET lw == stats_fast.longest_words
            off == Offered
        IN /\ LengthsNonIncreasing(lw)
           /\ off # <<>> =>
                 LET occ == MaxLenOccurrencesOf(off) IN
                 /\ Len(lw[1]) = Len(occ[1])
                 /\ Len(occ) > LongestL => SameBag(lw, Take(occ, LongestL))

\* more than 5 different words share the maximum length, and the five reported
\* are not listed in their order of first appearance
C4_Witness ==
    /\ Done
    /\ Cardinality(Range(MaxLenOccurrences)) > LongestL
    /\ Len(stats_fast.longest_words) = LongestL
    /\ \E i, j \in 1..LongestL :
          i < j /\ FirstSeen(stats_fast.longest_words[i]) > FirstSeen(stats_fast.longest_words[j])

-----------------------------------------------------------------------------
MinHeapLen(h) == CHOOSE m \in {h[k][1] : k \in 1..Len(h)} :
                     \A k \in 1..Len(h) : m <= h[k][1]

RemoveAt(s, k) == SubSeq(s, 1, k - 1) \o SubSeq(s, k + 1, Len(s))

\* the effect on a full longest-set h of offering the word w, giving h2
FullSetOffer(h, w, h2) ==
    IF Len(w) > MinHeapLen(h)
    THEN \E k \in 1..Len(h) :
            /\ h[k][1] = MinHeapLen(h)
            /\ SameBag(h2, Append(RemoveAt(h, k), <<Len(w), w>>))
    ELSE SameBag(h2, h)

(* C8: the longest-set never holds more than 5 entries; once it is full an  *)
(* offered word replaces an entry only if its length strictly exceeds the   *)
(* minimum length in the set, and then exactly one entry of minimum length  *)
(* is evicted; a word as long as the minimum leaves the set unchanged.      *)
C8_LongestSet ==
    /\ [](Len(longest_words_heap) <= LongestL)
    /\ [][(pc = "scan" /\ Len(tokens') = Len(tokens) + 1
            /\ Normalized(tokens'[Len(tokens')]) # <<>>
            /\ Len(longest_words_heap) = LongestL)
          => FullSetOffer(longest_words_heap, Normalized(tokens'[Len(tokens')]),
                          longest_words_heap')]_vars

\* a full set that no longer holds the first five words offered: the sixth word,
\* longer than the minimum, has replaced one of them
C8_Witness ==
    /\ pc = "scan"
    /\ Len(longest_words_heap) = LongestL
    /\ Len(Offered) > LongestL
    /\ ~SameBag(longest_words_heap,
                [i \in 1..LongestL |-> <<Len(Offered[i]), Offered[i]>>])
    /\ CountIn(longest_words_heap, <<Len(Offered[Len(Offered)]), Offered[Len(Offered)]>>) >= 1

-----------------------------------------------------------------------------
(* C9: two runs of analyze_text_fast on the same input return the same      *)
(* word_count, char_count, top_words and longest_words, in the same order,  *)
(* whatever the iteration order of the hash map.                            *)
C9_Deterministic ==
    (run = 2 /\ Done) => stats_fast = first.stats

\* a second run that iterated the map in another order over tied words
C9_Witness ==
    /\ run = 2
    /\ Done
    /\ seed # first.seed
    /\ IterOrder(word_freq, seed) # IterOrder(word_freq, first.seed)
    /\ \E i, j \in 1..Len(top_words) : i # j /\ top_words[i][2] = top_words[j][2]

====
